---- MODULE Spec2Model ----
(***************************************************************************)
(* Model of the posting pipeline of larry_david_bot.py (class              *)
(* LarryDavidBot): the recent-post ledger and its cache file, the quote    *)
(* source with its fallback pool, the uniqueness loop of post_quote, and   *)
(* the two publish targets (Bluesky, the system of record, and Twitter,    *)
(* the optional target).                                                   *)
(*                                                                         *)
(* A text is a sequence of characters.  Characters are one-character       *)
(* strings; DQ is the quotation mark and SP a whitespace character.        *)
(***************************************************************************)
EXTENDS Integers, Sequences, FiniteSets, TLC

VARIABLES
    posts_cache_file,  \* recent_posts.json: [state, posts]
    recent_posts,      \* self.recent_posts, the in-memory ledger
    twitter_client,    \* TRUE iff self.twitter_client is not None
    pc,                \* position of the scheduler / of post_quote
    attempt,           \* loop variable of post_quote's for loop (iterations begun)
    quote,             \* local variable quote of post_quote
    cycles,            \* number of post_quote calls started
    \* ---- observations of the run (history variables) ----
    loaded,            \* the list load_recent_posts returned at start-up
    recorded,          \* texts appended by post_to_bluesky so far, in order
    pre_posts,         \* recent_posts when the current cycle started
    pre_file,          \* posts_cache_file when the current cycle started
    genCalls,          \* generate_larry_quote calls made in this cycle
    dupCount,          \* of those, how many returned a text then in the ledger
    usedFallback,      \* the for loop's else branch ran in this cycle
    bsky,              \* what the Bluesky call did in this cycle
    bsky_ret,          \* what post_to_bluesky returned
    sent,              \* text handed to client.send_post (NoText before)
    tw,                \* what the Twitter call did in this cycle
    tw_ret,            \* what post_to_twitter returned, or "raised"
    tweet,             \* text handed to create_tweet (NoText before)
    logged,            \* text of the "Posted quote" log record (NoText before)
    ret,               \* what post_quote returned ("none" while running)
    saved,             \* how save_recent_posts went in this cycle
    succeeded,         \* final quotes whose send_post returned a post with a uri
    sendCalls,         \* client.send_post calls made in this cycle
    tweetCalls,        \* create_tweet calls made in this cycle
    appends,           \* appends to recent_posts made in this cycle
    tw_log             \* level of the record post_to_twitter logged

vars == << posts_cache_file, recent_posts, twitter_client, pc, attempt, quote,
           cycles, loaded, recorded, pre_posts, pre_file, genCalls, dupCount,
           usedFallback, bsky, bsky_ret, sent, tw, tw_ret, tweet, logged, ret,
           saved, succeeded, sendCalls, tweetCalls, appends, tw_log >>

-----------------------------------------------------------------------------
(* Bounds of the model *)

\* post_quote calls the scheduler makes in one run of the model
MaxCycles == 2

-----------------------------------------------------------------------------
(* Program constants *)

max_cache_size == 100
max_attempts == 10
TWEET_LIMIT == 280

-----------------------------------------------------------------------------
(* Characters and Python string operations *)

DQ == "\""
SP == " "
\* Stands for "no text yet" in a variable that holds a text
NoText == << "<none>" >>
Whitespace == {SP}

Min(a, b) == IF a <= b THEN a ELSE b
Range(s) == { s[i] : i \in 1..Len(s) }

\* s[-n:] for n > 0
LastSlice(s, n) == IF Len(s) <= n THEN s ELSE SubSeq(s, Len(s) - n + 1, Len(s))
\* s[:n]
FirstSlice(s, n) == SubSeq(s, 1, Min(n, Len(s)))

RECURSIVE lstrip(_)
lstrip(s) == IF s # <<>> /\ Head(s) \in Whitespace THEN lstrip(Tail(s)) ELSE s
RECURSIVE rstrip(_)
rstrip(s) ==
    IF s # <<>> /\ s[Len(s)] \in Whitespace
    THEN rstrip(SubSeq(s, 1, Len(s) - 1))
    ELSE s
\* str.strip()
strip(s) == rstrip(lstrip(s))
\* str.startswith / str.endswith with a one-character argument
startswith(s, c) == s # <<>> /\ s[1] = c
endswith(s, c) == s # <<>> /\ s[Len(s)] = c

-----------------------------------------------------------------------------
(* Texts of the model *)

\* The fallback pool of get_fallback_quote.  Each of the five strings is
\* abbreviated to a two-character tag: like the originals they are pairwise
\* distinct, non-blank, free of surrounding quotation marks and shorter than
\* the tweet limit.
fallback_quotes ==
    << <<"F", "1">>, <<"F", "2">>, <<"F", "3">>, <<"F", "4">>, <<"F", "5">> >>

\* A text of 281 characters
LongQuote == [ i \in 1..(TWEET_LIMIT + 1) |-> "x" ]

\* Response texts the generative backend may return (response.text)
Responses ==
    { <<>>,                       \* empty
      <<SP>>,                     \* whitespace only
      <<DQ>>,                     \* a single quotation mark
      <<DQ, DQ>>,                 \* quotation marks only
      <<DQ, "a", DQ>>,            \* quoted text
      <<SP, "a", SP>>,            \* text padded with whitespace
      <<"a">>,
      LongQuote }                 \* one character over the tweet limit

\* What model.generate_content / response.text can do
BackendOutcomes ==
    { [kind |-> "raise", text |-> <<>>],       \* generate_content raises
      [kind |-> "no_text", text |-> <<>>] }    \* response.text raises
    \cup { [kind |-> "text", text |-> t] : t \in Responses }

Digit == << "0", "1", "2", "3", "4", "5", "6", "7", "8", "9" >>
\* Older ledger entries: the decimal numeral of i, a text no source produces
OldPost(i) == << Digit[(i \div 100) + 1], Digit[((i \div 10) % 10) + 1],
                 Digit[(i % 10) + 1] >>
\* A stored list of n entries, oldest first, whose two oldest entries are a
\* fallback-pool string and a text the backend can produce
StoredList(n) ==
    [ i \in 1..n |->
        IF i = 1 THEN fallback_quotes[1]
        ELSE IF i = 2 THEN <<"a">>
        ELSE OldPost(i) ]

\* Lengths of the list found in recent_posts.json at start-up
StoredLens == {2, max_cache_size - 1, max_cache_size + 1}

\* Contents of recent_posts.json at start-up: no file, a file that cannot
\* be opened, a file json.load rejects (posts is what its text still
\* shows), or a stored list
InitialFiles ==
    { [state |-> "missing", posts |-> <<>>],
      [state |-> "unreadable", posts |-> StoredList(2)],
      [state |-> "corrupt", posts |-> StoredList(2)] }
    \cup { [state |-> "ok", posts |-> StoredList(n)] : n \in StoredLens }

-----------------------------------------------------------------------------
(* Ledger *)

\* A loader that takes whatever entries the file still shows
load_recent_posts_Lenient(f) == f.posts

\* lines 83-91
load_recent_posts(f) == IF f.state = "ok" THEN f.posts ELSE <<>>

\* save_recent_posts: how may be "ok", "open_fails" (the file is left as it
\* was) or "dump_fails" (the file was truncated by open and is left partial)
save_recent_posts(f, posts, how) ==
    CASE how = "ok" -> [state |-> "ok", posts |-> posts]
      [] how = "open_fails" -> f
      [] how = "dump_fails" -> [state |-> "corrupt", posts |-> <<>>]

SaveOutcomes == {"ok", "open_fails", "dump_fails"}

\* save_recent_posts without the try/except of lines 95 and 98
CaughtBySave_Nothing(how) == FALSE

\* line 98: "except Exception" of save_recent_posts
CaughtBySave(how) == TRUE

is_duplicate(q, posts) == \E i \in 1..Len(posts) : posts[i] = q

\* A slip in line 233: the slice keeps the front of the list
RecordPost_KeepsOldest(posts, text) ==
    LET a == Append(posts, text)
    IN  IF Len(a) > max_cache_size THEN FirstSlice(a, max_cache_size) ELSE a

\* lines 230-233: append, then keep the most recent max_cache_size
RecordPost(posts, text) ==
    LET a == Append(posts, text)
    IN  IF Len(a) > max_cache_size THEN LastSlice(a, max_cache_size) ELSE a

-----------------------------------------------------------------------------
(* Quote source *)

\* lines 153-159
CleanQuote(text) ==
    LET q == strip(text)
    IN  IF startswith(q, DQ) /\ endswith(q, DQ)
        THEN SubSeq(q, 2, Len(q) - 1)
        ELSE q

\* fb is the string random.choice picks if the except branch runs
generate_larry_quote(r, fb) ==
    IF r.kind = "text" THEN CleanQuote(r.text) ELSE fb

FallbackPool == Range(fallback_quotes)

\* A variant of line 174 that skips pool strings already in the ledger
get_fallback_quote_Unposted ==
    { fb \in FallbackPool : ~ is_duplicate(fb, recent_posts) }

\* lines 165-174: the strings random.choice may return
get_fallback_quote == FallbackPool

-----------------------------------------------------------------------------
(* Publish targets *)

\* What the Bluesky call can do: succeed, or fail at one of its three steps
\* (RichText(text)/detect_links raises, send_post raises, the returned post
\* has no uri)
BlueskyOutcomes == {"ok", "richtext_raises", "send_post_raises", "no_uri"}

\* What create_tweet can do: return a response with an id, return one
\* without, raise a TweepyException (status is the status code of its
\* response, 0 when it carries no response), or raise an exception that is
\* not a TweepyException
TweepyStatuses == {0, 401, 403, 429, 500}
TwitterOutcomes ==
    { [kind |-> k, status |-> 0] : k \in {"ok", "no_id", "other_exception"} }
    \cup { [kind |-> "tweepy_error", status |-> c] : c \in TweepyStatuses }

\* A slip in lines 229-230: the append placed before post.uri is read
ReachesRecord_BeforeUri(o) == o \in {"ok", "no_uri"}

\* The append done whatever the try body met
ReachesRecord_Always(o) == TRUE

\* lines 222-229: the try body got past post.uri, so line 230 runs
ReachesRecord(o) == o = "ok"

\* A narrower except clause in line 237: only errors of send_post
CaughtByBluesky_OnlySend(o) == o = "send_post_raises"

\* line 237: "except Exception" of post_to_bluesky catches every failure
CaughtByBluesky(o) == TRUE

\* The slice of line 187 left out
TweetText_Whole(q) == q

\* line 187
TweetText(q) == FirstSlice(q, TWEET_LIMIT)

\* post_quote without the try/except of lines 243 and 265
CaughtByPostQuote_Nothing(e) == FALSE

\* line 265: "except Exception" of post_quote catches whatever a step let out
CaughtByPostQuote(e) == TRUE

\* line 198: the except clause of post_to_twitter catches this outcome
CaughtByTwitter(o) == o.kind = "tweepy_error"

\* A retry of create_tweet on status 429
RetriesTwitter_OnRateLimit(o) == o.kind = "tweepy_error" /\ o.status = 429

\* lines 198-216: no branch of the handler calls create_tweet again
RetriesTwitter(o) == FALSE

\* lines 183, 192, 195, 204-214: level of the record post_to_twitter logs
TwitterLogLevel(kind) ==
    CASE kind \in {"skipped", "ok"} -> "info"
      [] kind \in {"no_id", "tweepy_error"} -> "error"
      [] OTHER -> "none"

\* post_quote with the two publish calls in the other order
StepAfter_TwitterFirst(p) ==
    CASE p = "resolve" -> "twitter"
      [] p = "twitter" -> "bluesky"
      [] p = "bluesky" -> "log"

\* lines 256-262: the order of post_quote's steps after the loop
StepAfter(p) ==
    CASE p = "resolve" -> "bluesky"
      [] p = "bluesky" -> "twitter"
      [] p = "twitter" -> "log"

\* post_quote returning the result of the Bluesky publish
post_quote_result_FromBluesky(b, t) == b

\* line 263: post_quote returns True whatever the publish calls returned
post_quote_result(b, t) == "True"

-----------------------------------------------------------------------------
(* Initial state: __init__ has run *)

Init ==
    /\ posts_cache_file \in InitialFiles
    /\ recent_posts = load_recent_posts(posts_cache_file)
    /\ twitter_client \in BOOLEAN
    /\ pc = "idle"
    /\ attempt = 0
    /\ quote = NoText
    /\ cycles = 0
    /\ loaded = recent_posts
    /\ recorded = <<>>
    /\ pre_posts = recent_posts
    /\ pre_file = posts_cache_file
    /\ genCalls = 0
    /\ dupCount = 0
    /\ usedFallback = FALSE
    /\ bsky = "none"
    /\ bsky_ret = "none"
    /\ sent = NoText
    /\ tw = "none"
    /\ tw_ret = "none"
    /\ tweet = NoText
    /\ logged = NoText
    /\ ret = "none"
    /\ saved = "none"
    /\ succeeded = <<>>
    /\ sendCalls = 0
    /\ tweetCalls = 0
    /\ appends = 0
    /\ tw_log = "none"

-----------------------------------------------------------------------------
(* post_quote, step by step *)

\* The scheduler calls post_quote (lines 274, 278); line 245
StartCycle ==
    /\ pc = "idle"
    /\ cycles < MaxCycles
    /\ cycles' = cycles + 1
    /\ pc' = "loop"
    /\ attempt' = 0
    /\ quote' = NoText
    /\ pre_posts' = recent_posts
    /\ pre_file' = posts_cache_file
    /\ genCalls' = 0
    /\ dupCount' = 0
    /\ usedFallback' = FALSE
    /\ bsky' = "none"
    /\ bsky_ret' = "none"
    /\ sent' = NoText
    /\ tw' = "none"
    /\ tw_ret' = "none"
    /\ tweet' = NoText
    /\ logged' = NoText
    /\ ret' = "none"
    /\ saved' = "none"
    /\ sendCalls' = 0
    /\ tweetCalls' = 0
    /\ appends' = 0
    /\ tw_log' = "none"
    /\ UNCHANGED << posts_cache_file, recent_posts, twitter_client, loaded,
                    recorded, succeeded >>

\* Slips in line 246: one iteration short, one iteration more
LoopContinues_OneShort(k) == k < max_attempts - 1
LoopContinues_OneMore(k) == k <= max_attempts

\* line 246: the for loop has iterations left
LoopContinues(k) == k < max_attempts

\* A slip in line 249: the "not" left out
BreaksLoop_Inverted(q, posts) == is_duplicate(q, posts)

\* A variant of line 249 that lets a pool string through unchecked
BreaksLoop_TrustsPool(q, posts) ==
    q \in FallbackPool \/ ~ is_duplicate(q, posts)

\* line 249: the condition of the break
BreaksLoop(q, posts) == ~ is_duplicate(q, posts)

\* One iteration of the for loop (lines 246-251)
Iterate ==
    /\ pc = "loop"
    /\ LoopContinues(attempt)
    /\ \E r \in BackendOutcomes, fb \in get_fallback_quote :
         LET q == generate_larry_quote(r, fb)
         IN  /\ quote' = q
             /\ genCalls' = genCalls + 1
             /\ dupCount' = IF q \in Range(recent_posts)
                            THEN dupCount + 1 ELSE dupCount
             /\ IF BreaksLoop(q, recent_posts)
                THEN /\ pc' = StepAfter("resolve")
                     /\ attempt' = attempt
                ELSE /\ pc' = "loop"
                     /\ attempt' = attempt + 1
    /\ UNCHANGED << posts_cache_file, recent_posts, twitter_client, cycles,
                    loaded, recorded, pre_posts, pre_file, usedFallback,
                    bsky, bsky_ret, sent, tw, tw_ret, tweet, logged, ret,
                    saved, succeeded, sendCalls, tweetCalls, appends, tw_log >>

\* The else branch of the for loop (lines 252-254)
Exhausted ==
    /\ pc = "loop"
    /\ ~ LoopContinues(attempt)
    /\ \E fb \in get_fallback_quote : quote' = fb
    /\ usedFallback' = TRUE
    /\ pc' = StepAfter("resolve")
    /\ UNCHANGED << posts_cache_file, recent_posts, twitter_client, attempt,
                    cycles, loaded, recorded, pre_posts, pre_file, genCalls,
                    dupCount, bsky, bsky_ret, sent, tw, tw_ret, tweet, logged,
                    ret, saved, succeeded, sendCalls, tweetCalls, appends,
                    tw_log >>

\* post_to_bluesky(quote) (line 257, lines 218-239).  With RichText
\* unavailable (line 22) the outcome "richtext_raises" does not arise; the
\* text sent is the same on both branches (rt.text is text).  An exception
\* save_recent_posts let out would be raised inside the try of line 220.
PostToBluesky ==
    /\ pc = "bluesky"
    /\ \E o \in BlueskyOutcomes, how \in SaveOutcomes :
         LET raised == o # "ok" \/ (how # "ok" /\ ~ CaughtBySave(how))
         IN
         /\ bsky' = o
         /\ sent' = IF o = "richtext_raises" THEN NoText ELSE quote
         /\ sendCalls' = IF o = "richtext_raises"
                         THEN sendCalls ELSE sendCalls + 1
         /\ succeeded' = IF o = "ok" THEN Append(succeeded, quote)
                         ELSE succeeded
         /\ IF ReachesRecord(o)
            THEN /\ recent_posts' = RecordPost(recent_posts, quote)
                 /\ posts_cache_file' =
                        save_recent_posts(posts_cache_file, recent_posts', how)
                 /\ recorded' = Append(recorded, quote)
                 /\ appends' = appends + 1
                 /\ saved' = how
            ELSE /\ saved' = "none"
                 /\ UNCHANGED << recent_posts, posts_cache_file, recorded,
                                 appends >>
         /\ IF ~ raised
            THEN bsky_ret' = "True" /\ pc' = StepAfter("bluesky") /\ ret' = ret
            ELSE IF CaughtByBluesky(o)
            THEN bsky_ret' = "False" /\ pc' = StepAfter("bluesky") /\ ret' = ret
            ELSE /\ bsky_ret' = "raised"
                 /\ pc' = "returned"
                 /\ ret' = IF CaughtByPostQuote(o) THEN "False" ELSE "raised"
    /\ UNCHANGED << twitter_client, attempt, quote, cycles, loaded, pre_posts,
                    pre_file, genCalls, dupCount, usedFallback, tw, tw_ret,
                    tweet, logged, tweetCalls, tw_log >>

\* post_to_twitter(quote) (line 260, lines 180-216); an exception it lets
\* out goes to the except clause of post_quote (lines 265-267)
PostToTwitter ==
    /\ pc = "twitter"
    /\ IF ~ twitter_client
       THEN /\ tw' = "skipped"
            /\ tw_ret' = "False"
            /\ tweet' = NoText
            /\ tweetCalls' = tweetCalls
            /\ pc' = StepAfter("twitter")
            /\ ret' = ret
       ELSE \E o \in TwitterOutcomes :
            /\ tw' = o.kind
            /\ tweet' = TweetText(quote)
            /\ tweetCalls' = tweetCalls + 1
            /\ IF o.kind = "ok"
               THEN tw_ret' = "True" /\ pc' = StepAfter("twitter") /\ ret' = ret
               ELSE IF o.kind = "no_id" \/ CaughtByTwitter(o)
               THEN IF RetriesTwitter(o)
                    THEN tw_ret' = tw_ret /\ pc' = "twitter" /\ ret' = ret
                    ELSE /\ tw_ret' = "False"
                         /\ pc' = StepAfter("twitter")
                         /\ ret' = ret
               ELSE /\ tw_ret' = "raised"
                    /\ pc' = "returned"
                    /\ ret' = IF CaughtByPostQuote(o) THEN "False" ELSE "raised"
    /\ tw_log' = TwitterLogLevel(tw')
    /\ UNCHANGED << posts_cache_file, recent_posts, twitter_client, attempt,
                    quote, cycles, loaded, recorded, pre_posts, pre_file,
                    genCalls, dupCount, usedFallback, bsky, bsky_ret, sent,
                    logged, saved, succeeded, sendCalls, appends >>

\* lines 262-263
LogAndReturn ==
    /\ pc = "log"
    /\ logged' = quote
    /\ ret' = post_quote_result(bsky_ret, tw_ret)
    /\ pc' = "returned"
    /\ UNCHANGED << posts_cache_file, recent_posts, twitter_client, attempt,
                    quote, cycles, loaded, recorded, pre_posts, pre_file,
                    genCalls, dupCount, usedFallback, bsky, bsky_ret, sent,
                    tw, tw_ret, tweet, saved, succeeded, sendCalls,
                    tweetCalls, appends, tw_log >>

\* post_quote has returned to run_scheduler's loop (lines 281-283)
BackToScheduler ==
    /\ pc = "returned"
    /\ pc' = "idle"
    /\ UNCHANGED << posts_cache_file, recent_posts, twitter_client, attempt,
                    quote, cycles, loaded, recorded, pre_posts, pre_file,
                    genCalls, dupCount, usedFallback, bsky, bsky_ret, sent,
                    tw, tw_ret, tweet, logged, ret, saved, succeeded,
                    sendCalls, tweetCalls, appends, tw_log >>

Next ==
    \/ StartCycle
    \/ Iterate
    \/ Exhausted
    \/ PostToBluesky
    \/ PostToTwitter
    \/ LogAndReturn
    \/ BackToScheduler

Spec == Init /\ [][Next]_vars

-----------------------------------------------------------------------------
(* Properties *)

\* Every text this run has seen recorded, the start-up list first
History == loaded \o recorded

\* Texts the sources of the model can produce
SourceTexts == FallbackPool \cup { CleanQuote(t) : t \in Responses }

\* The cycle's Bluesky step is over
AfterBluesky == bsky # "none" /\ pc \in {"twitter", "log", "returned", "idle"}

\* C1: once a publish has been recorded, the in-memory ledger is, in order,
\* the last min(n, 100) texts recorded so far (the start-up list counting as
\* recorded first), and is_duplicate holds exactly of those texts.
C1_LedgerIsMostRecent ==
    recorded # <<>> =>
        LET n == Len(History)
            m == Min(n, max_cache_size)
            recent == { History[i] : i \in (n - m + 1)..n }
            evicted == { History[i] : i \in 1..(n - m) }
        IN  /\ Len(recent_posts) = m
            /\ recent_posts = SubSeq(History, n - m + 1, n)
            /\ \A t \in SourceTexts \cup evicted :
                   is_duplicate(t, recent_posts) <=> t \in recent

\* C1 witness: the 101st text was recorded and the oldest entry is gone
C1_Witness ==
    /\ Len(loaded) = max_cache_size - 1
    /\ Len(recorded) = 2
    /\ recent_posts[1] = loaded[2]
    /\ ~ is_duplicate(loaded[1], recent_posts)

\* C2 (as claimed): the in-memory ledger never holds more than 100 entries,
\* whatever the length of the stored list.
C2_LengthNeverExceedsCap == Len(recent_posts) <= max_cache_size

\* C3: a cycle whose Bluesky publish failed leaves the in-memory ledger and
\* the ledger file as they were before the cycle.
C3_FailureLeavesLedger ==
    (AfterBluesky /\ bsky_ret # "True") =>
        /\ recent_posts = pre_posts
        /\ posts_cache_file = pre_file

\* C3 witness: a publish failed on a missing uri, after an earlier cycle
\* had recorded a text
C3_Witness ==
    /\ pc = "twitter"
    /\ bsky = "no_uri"
    /\ recorded # <<>>

\* post_quote has returned
CycleOver == pc \in {"returned", "idle"} /\ cycles > 0

\* C4 (as claimed): after a cycle whose Bluesky publish failed,
\* is_duplicate(final quote) is false, the fallback path included.
C4_FailedQuoteNeverDuplicate ==
    (CycleOver /\ bsky_ret = "False") => ~ is_duplicate(quote, recent_posts)

\* C4 (amended): after a cycle whose Bluesky publish failed,
\* is_duplicate(final quote) is false when the final quote is a candidate
\* that passed the duplicate check; when all 10 attempts were duplicates and
\* the fallback was taken it is true exactly if the chosen pool string was
\* in the ledger before the cycle.
C4_FailedQuoteDuplicateOnlyByFallback ==
    (CycleOver /\ bsky_ret = "False") =>
        (is_duplicate(quote, recent_posts)
            <=> (usedFallback /\ quote \in Range(pre_posts)))

\* C4 witness: the publish failed after the fallback path chose a pool
\* string that the ledger does not hold
C4_Witness ==
    /\ CycleOver
    /\ bsky_ret = "False"
    /\ usedFallback
    /\ quote \notin Range(pre_posts)

\* Candidates of this cycle that were not in the ledger when generated
FreshCount == genCalls - dupCount

\* C5: the resolver makes at most 10 generate calls, stops at the first
\* candidate that is not in the ledger and returns it; the fallback is
\* taken only after 10 duplicates, so a fresh 10th candidate is the final
\* quote.
C5_FirstFreshCandidateWins ==
    /\ genCalls <= max_attempts
    /\ FreshCount \in {0, 1}
    /\ FreshCount = 1 => (pc # "loop" /\ ~ usedFallback)
    /\ (pc = "bluesky" /\ ~ usedFallback) =>
            (FreshCount = 1 /\ quote \notin Range(recent_posts))
    /\ usedFallback => dupCount = max_attempts

\* C5 witness: nine duplicates, then a fresh tenth candidate is the final
\* quote
C5_Witness ==
    /\ pc = "bluesky"
    /\ dupCount = max_attempts - 1
    /\ genCalls = max_attempts
    /\ ~ usedFallback
    /\ quote \notin Range(recent_posts)

\* C6: after 10 duplicate candidates the resolver has made exactly 10
\* generate calls and goes on, without an error, to a final quote drawn from
\* the fallback pool, every pool string being eligible whether or not the
\* ledger holds it; a successful publish then appends it to the ledger.
C6_ExhaustedTakesFallback ==
    /\ dupCount = max_attempts => genCalls = max_attempts
    /\ (dupCount = max_attempts /\ pc = "loop") =>
            \A fb \in FallbackPool : ENABLED (Exhausted /\ quote' = fb)
    /\ (dupCount = max_attempts /\ pc # "loop") =>
            (usedFallback /\ quote \in FallbackPool)
    /\ (usedFallback /\ pc = "twitter" /\ bsky_ret = "True") =>
            /\ recent_posts[Len(recent_posts)] = quote
            /\ recorded[Len(recorded)] = quote
            /\ ret = "none"

\* C6 witness: a pool string already in the ledger was taken as fallback,
\* published, and appended a second time
C6_Witness ==
    /\ usedFallback
    /\ pc = "twitter"
    /\ bsky_ret = "True"
    /\ quote \in Range(pre_posts)
    /\ Len(recent_posts) = Len(pre_posts) + 1

\* C7 (as claimed): generate_larry_quote returns a non-empty string.
C7_GenerateNonEmpty ==
    (genCalls > 0 /\ ~ usedFallback) => quote # <<>>

\* The Twitter call of this cycle was made and failed
TwitterFailed == tw \in {"no_id", "tweepy_error", "other_exception"}

\* C8: a step in which the Twitter publish fails, and the rest of that
\* cycle, changes neither the in-memory ledger nor the ledger file, and no
\* exception leaves post_quote.
C8_TwitterFailureHarmless ==
    [][ ((pc = "twitter" /\ TwitterFailed') \/ (pc = "log" /\ TwitterFailed))
            => /\ recent_posts' = recent_posts
               /\ posts_cache_file' = posts_cache_file
               /\ ret' # "raised" ]_vars

\* C8 witness: the Bluesky publish was recorded, then the Twitter call
\* raised an exception post_to_twitter does not catch, and post_quote
\* returned
C8_Witness ==
    /\ CycleOver
    /\ bsky_ret = "True"
    /\ tw = "other_exception"
    /\ recent_posts[Len(recent_posts)] = quote

\* C9: when Twitter is configured, every cycle makes the Twitter call with
\* the final quote, whether the Bluesky publish succeeded or failed.
C9_TwitterAlwaysAttempted ==
    (twitter_client /\ CycleOver) =>
        /\ tw \notin {"none", "skipped"}
        /\ tweet = FirstSlice(quote, TWEET_LIMIT)

\* C9 witness: the Bluesky publish failed inside RichText and the tweet
\* went out all the same
C9_Witness ==
    /\ twitter_client
    /\ CycleOver
    /\ bsky = "richtext_raises"
    /\ tw = "ok"
    /\ tweet = quote

\* C10 (as claimed): no exception leaves post_to_bluesky or
\* post_to_twitter.
C10_TargetsNeverRaise == bsky_ret # "raised" /\ tw_ret # "raised"

\* C11: post_quote always returns a value to its caller; it returns True
\* whenever no step let an exception out, also when both publish calls
\* failed, and False exactly when its own except clause caught one.
C11_PostQuoteNeverRaises ==
    CycleOver =>
        /\ ret \in {"True", "False"}
        /\ ret = "False" <=> (bsky_ret = "raised" \/ tw_ret = "raised")

\* C11 witness: the backend raised, the ledger file was unusable, both
\* publish calls failed, and post_quote returned True
C11_Witness ==
    /\ CycleOver
    /\ ret = "True"
    /\ bsky_ret = "False"
    /\ tw = "tweepy_error"
    /\ quote \in FallbackPool
    /\ posts_cache_file.state # "ok"

\* C12 (as claimed): every cycle logs its final quote, whatever the outcome
\* of each publish call.
C12_QuoteAlwaysLogged == CycleOver => logged = quote

\* The write of the ledger file failed in this cycle
SaveFailed == saved \in {"open_fails", "dump_fails"}

\* C13: when the Bluesky publish succeeds and the write of the ledger file
\* fails, the in-memory ledger still ends with the new text,
\* post_to_bluesky returns True, and the cycle goes on to the Twitter step.
C13_SaveFailureSwallowed ==
    SaveFailed =>
        /\ recent_posts[Len(recent_posts)] = quote
        /\ bsky_ret = "True"
        /\ pc = "twitter" \/ tw # "none"
        /\ ret # "raised"

\* C13 witness: the write failed part-way, and the tweet still went out
C13_Witness ==
    /\ saved = "dump_fails"
    /\ posts_cache_file.state = "corrupt"
    /\ bsky_ret = "True"
    /\ tw = "ok"
    /\ is_duplicate(quote, recent_posts)

\* A cycle is in flight
InFlight == pc \notin {"idle", "returned"}

\* C14 (as claimed): at every point, what a restart would load from the
\* ledger file is the in-memory ledger, or, while a cycle is in flight, the
\* ledger as it stood before that cycle.
C14_ReloadLosesAtMostInFlight ==
    LET reloaded == load_recent_posts(posts_cache_file)
    IN  \/ reloaded = recent_posts
        \/ InFlight /\ reloaded = pre_posts

\* C15: with the ledger file missing, unreadable or corrupt at start-up the
\* loaded ledger is empty, and the first cycle runs as with no history: no
\* candidate is a duplicate, the fallback branch is not taken, and a
\* successful publish leaves a ledger of that one text.
C15_BadStorageIsEmptyHistory ==
    /\ (cycles = 0 /\ posts_cache_file.state # "ok") =>
            (recent_posts = <<>> /\ loaded = <<>>)
    /\ (cycles = 1 /\ pre_file.state # "ok") =>
            /\ pre_posts = <<>>
            /\ dupCount = 0
            /\ ~ usedFallback
            /\ bsky_ret = "True" => recent_posts = << quote >>

\* C15 witness: started on a corrupt file that still shows entries, the
\* first cycle published a text and rewrote the file
C15_Witness ==
    /\ cycles = 1
    /\ pre_file.state = "corrupt"
    /\ pre_file.posts # <<>>
    /\ bsky_ret = "True"
    /\ recent_posts = << quote >>
    /\ posts_cache_file = [state |-> "ok", posts |-> << quote >>]

\* C16: no Twitter call is made while the cycle is still choosing its quote
\* or publishing to Bluesky; when the Twitter step has run, the Bluesky step
\* has returned, and on success the append and the write of the file have
\* been done.
C16_TwitterAfterBluesky ==
    /\ pc \in {"loop", "bluesky"} =>
            (tw = "none" /\ tweetCalls = 0 /\ tweet = NoText)
    /\ tw # "none" =>
            /\ bsky # "none"
            /\ bsky_ret # "none"
            /\ bsky_ret = "True" =>
                   (saved # "none" /\ recent_posts[Len(recent_posts)] = quote)

\* C16 witness: the tweet went out after the text was appended and written
C16_Witness ==
    /\ tw = "ok"
    /\ bsky_ret = "True"
    /\ saved = "ok"
    /\ posts_cache_file = [state |-> "ok", posts |-> recent_posts]
    /\ recent_posts[Len(recent_posts)] = quote

\* C17: in one cycle send_post is called at most once, create_tweet is
\* called at most once whatever it raises, and the ledger is appended to at
\* most once.
C17_NoRetryWithinCycle ==
    /\ sendCalls <= 1
    /\ tweetCalls <= 1
    /\ appends <= 1
    /\ Len(recorded) <= cycles

\* C17 witness: both publish calls raised in the same cycle and each was
\* made once
C17_Witness ==
    /\ CycleOver
    /\ bsky = "send_post_raises"
    /\ sendCalls = 1
    /\ tw = "tweepy_error"
    /\ tweetCalls = 1
    /\ appends = 0

\* C18 (as claimed): with Twitter not configured the cycle makes no
\* create_tweet call, and the skip is reported neither with the value a
\* failed publish returns nor with an error record.
C18_SkipIsNotFailure ==
    tw = "skipped" =>
        /\ tweetCalls = 0
        /\ tweet = NoText
        /\ tw_log # "error"
        /\ tw_ret # "False"

\* C19: the text handed to create_tweet is the first 280 characters of the
\* final quote; the text handed to send_post and the entry appended to the
\* ledger are the whole final quote.
C19_OnlyTweetIsTruncated ==
    /\ tweet # NoText =>
            /\ Len(tweet) = Min(Len(quote), 280)
            /\ tweet = SubSeq(quote, 1, Len(tweet))
    /\ sent # NoText => sent = quote
    /\ bsky_ret = "True" => recent_posts[Len(recent_posts)] = quote

\* C19 witness: a quote of 281 characters was published whole to Bluesky,
\* recorded whole, and tweeted cut to 280
C19_Witness ==
    /\ Len(quote) = 281
    /\ tw = "ok"
    /\ Len(tweet) = 280
    /\ Len(sent) = 281
    /\ bsky_ret = "True"
    /\ Len(recent_posts[Len(recent_posts)]) = 281

\* C20: the in-memory ledger is a tail of the start-up list followed by the
\* final quotes of the cycles whose Bluesky publish succeeded, in order;
\* nothing else is ever appended.
C20_OnlyPublishedTextsEnter ==
    LET H == loaded \o succeeded
        n == Len(H)
        m == Len(recent_posts)
    IN  /\ m <= n
        /\ recent_posts = SubSeq(H, n - m + 1, n)
        /\ recorded = succeeded
        /\ Len(succeeded) <= cycles

\* C20 witness: after one published cycle, a second cycle rejected a
\* duplicate candidate, failed on Bluesky, tweeted its final quote, and
\* left that quote out of the ledger
C20_Witness ==
    /\ cycles = 2
    /\ CycleOver
    /\ Len(succeeded) = 1
    /\ dupCount > 0
    /\ bsky_ret = "False"
    /\ tw = "ok"
    /\ ~ is_duplicate(quote, recent_posts)
    /\ recent_posts[Len(recent_posts)] = succeeded[1]

\* C21: once the loop is left, if the final quote was in the ledger the
\* cycle started with, then the fallback branch was taken after 10 generate
\* calls whose results were all in the ledger; a pool string that
\* generate_larry_quote returned (backend failing) and that became the final
\* quote without the fallback branch is not in that ledger.
C21_DuplicateOnlyAfterTenDuplicates ==
    (cycles > 0 /\ pc # "loop") =>
        /\ quote \in Range(pre_posts) =>
                /\ usedFallback
                /\ genCalls = max_attempts
                /\ dupCount = max_attempts
        /\ (quote \in FallbackPool /\ ~ usedFallback) =>
                /\ quote \notin Range(pre_posts)
                /\ dupCount = genCalls - 1

\* C21 witness: the final quote handed to post_to_bluesky is already in the
\* ledger, after 10 generate calls that all returned ledger entries
C21_Witness ==
    /\ pc = "bluesky"
    /\ bsky = "none"
    /\ is_duplicate(quote, recent_posts)
    /\ recent_posts = pre_posts
    /\ genCalls = max_attempts
    /\ dupCount = max_attempts

====
